---- MODULE Spec2Model ----
(***************************************************************************)
(* Model of the streamable HTTP transport of src/src/transport.ts          *)
(* (class StreamableHttpTransport): the session registry, the HTTP         *)
(* listener with its origin / protocol-version checks, the submit (POST)   *)
(* and subscribe (GET) paths, send / sendResponse / broadcastMessage and   *)
(* close.                                                                  *)
(***************************************************************************)
EXTENDS Naturals, Sequences, FiniteSets, TLC

(***************************************************************************)
(* Bounds of the model.                                                    *)
(***************************************************************************)
\* number of subscribe calls (streams ever created)
MaxStreams == 2
\* number of event frames the streams may hold together
MaxFrames == 2
\* number of submit calls suspended in `await request.text()` at a time
MaxInflight == 1

(***************************************************************************)
(* JavaScript values.  A header that is missing reads as null              *)
(* (headers.get), a key that is missing from an object is Absent.          *)
(***************************************************************************)
Absent == "<absent>"
JSNull == "null"

\* transport.ts:198 and :95, the one supported protocol version
BaselineVersion == "2025-03-26"

\* index.ts:131, the configured resource path
optionsPath == "/mcp"

(***************************************************************************)
(* JSON-RPC messages.  A parsed JSON value is a record: its JavaScript     *)
(* type, and for objects the id key (Absent, JSNull or an identifier), the *)
(* method key and the payload key (result / error).                        *)
(***************************************************************************)
RequestIds == {"1"}
ServerRequestIds == {"7"}

JSValue(t, i, m, p) == [type |-> t, id |-> i, method |-> m, payload |-> p]

Notification == JSValue("object", Absent, "ping", Absent)
NullIdNotification == JSValue("object", JSNull, "ping", Absent)
Request(i) == JSValue("object", i, "x", Absent)
ResultResponse(i) == JSValue("object", i, Absent, "result")
ErrorResponse(i) == JSValue("object", i, Absent, "error")
SyntaxError == JSValue("SyntaxError", Absent, Absent, Absent)

\* the JSON objects of the model
JSObjects ==
    {Notification, NullIdNotification}
        \cup {Request(i) : i \in RequestIds \cup ServerRequestIds}
        \cup {ResultResponse(i) : i \in RequestIds}
        \cup {ErrorResponse(i) : i \in RequestIds}
        \cup {JSValue("object", Absent, Absent, Absent)}

\* JSON.stringify of a message object (transport.ts:166)
JSONstringify(m) ==
    "{\"jsonrpc\":\"2.0\""
        \o (IF m.id = Absent THEN "" ELSE ",\"id\":" \o m.id)
        \o (IF m.method = Absent THEN "" ELSE ",\"method\":\"" \o m.method \o "\"")
        \o (IF m.payload = Absent THEN ""
            ELSE IF m.payload = "result" THEN ",\"result\":{}"
            ELSE ",\"error\":{\"code\":-32603,\"message\":\"Internal error\"}")
        \o "}"

\* the JSON texts of the objects of the model, each with the object it denotes
JSONtexts == {<<JSONstringify(v), v>> : v \in JSObjects}

\* JSON.parse of a request body (transport.ts:112); SyntaxError when it throws
JSONparse(body) ==
    IF \E t \in JSONtexts : t[1] = body
    THEN (CHOOSE t \in JSONtexts : t[1] = body)[2]
    ELSE CASE body = "null" -> JSValue("null", Absent, Absent, Absent)
           [] body = "42" -> JSValue("number", Absent, Absent, Absent)
           [] body = "\"hi\"" -> JSValue("string", Absent, Absent, Absent)
           [] body = "[]" -> JSValue("array", Absent, Absent, Absent)
           [] OTHER -> SyntaxError

\* the `in` operator throws a TypeError on a right operand that is no object
InThrows(v) == v.type \in {"null", "number", "string"}

\* `"id" in message && message.id !== null` (transport.ts:72, negated :120)
HasNonNullId(v) == v.id # Absent /\ v.id # JSNull

(***************************************************************************)
(* Connection gatekeeper: transport.ts:88-98 and :185-199.                 *)
(***************************************************************************)
InvalidURL == "<TypeError: Invalid URL>"

\* `new URL(origin).hostname` (transport.ts:189); InvalidURL when it throws
URLhostname(origin) ==
    CASE origin = "http://localhost:3000" -> "localhost"
      [] origin = "http://127.0.0.1" -> "127.0.0.1"
      [] origin = "http://[::1]" -> "[::1]"
      [] origin = "http://evil.example.com" -> "evil.example.com"
      [] OTHER -> InvalidURL

isValidOrigin(origin) ==
    LET hostname == URLhostname(origin)
    IN  IF hostname = InvalidURL
        THEN FALSE
        ELSE hostname = "localhost" \/ hostname = "127.0.0.1"

isSupportedProtocolVersion(version) == version = BaselineVersion

\* JavaScript truthiness of a header value (string or null)
Truthy(h) == h # Absent /\ h # ""

\* `request.headers.get("MCP-Protocol-Version") || "2025-03-26"`
protocolVersion(request) ==
    IF Truthy(request.version) THEN request.version ELSE BaselineVersion

\* handleRequest dispatching on the method before the origin and version checks
handleRequestDispatchingFirst(request) ==
    IF request.path # optionsPath THEN "404"
    ELSE IF request.method = "POST" THEN "handlePostRequest"
    ELSE IF request.method = "GET" THEN "handleGetRequest"
    ELSE IF Truthy(request.origin) /\ ~isValidOrigin(request.origin) THEN "403"
    ELSE IF ~isSupportedProtocolVersion(protocolVersion(request)) THEN "400"
    ELSE "405"

\* handleRequest treating every method but POST as a subscribe call
handleRequestSubscribingByDefault(request) ==
    IF request.path # optionsPath THEN "404"
    ELSE IF Truthy(request.origin) /\ ~isValidOrigin(request.origin) THEN "403"
    ELSE IF ~isSupportedProtocolVersion(protocolVersion(request)) THEN "400"
    ELSE IF request.method = "POST" THEN "handlePostRequest"
    ELSE "handleGetRequest"

(***************************************************************************)
(* handleRequest (transport.ts:81-107): the status of a request the        *)
(* listener answers itself, or the handler it dispatches to.               *)
(***************************************************************************)
handleRequest(request) ==
    IF request.path # optionsPath THEN "404"
    ELSE IF Truthy(request.origin) /\ ~isValidOrigin(request.origin) THEN "403"
    ELSE IF ~isSupportedProtocolVersion(protocolVersion(request)) THEN "400"
    ELSE IF request.method = "POST" THEN "handlePostRequest"
    ELSE IF request.method = "GET" THEN "handleGetRequest"
    ELSE "405"

(***************************************************************************)
(* handlePostRequest after the body has been read (transport.ts:112-129).  *)
(* handler: whether a message handler is registered; throws: whether the   *)
(* handler throws synchronously when invoked.  Result: the status, the     *)
(* reply body, the number of handler invocations and the message handed    *)
(* to the handler.                                                         *)
(***************************************************************************)
PostResult(s, n, m) == [status |-> s, reply |-> IF s = "202" THEN "" ELSE "Bad Request",
                        invoked |-> n, message |-> m]

handlePostRequest(body, handler, throws) ==
    LET message == JSONparse(body)
        invoked == IF handler THEN 1 ELSE 0
    IN  IF message = SyntaxError THEN PostResult("400", 0, message)
        ELSE IF handler /\ throws THEN PostResult("400", invoked, message)
        ELSE IF InThrows(message) THEN PostResult("400", invoked, message)
        ELSE PostResult("202", invoked, message)

(***************************************************************************)
(* Streams.  A stream is what one subscribe call created: the identifier   *)
(* generateSessionId gave it, the state of its ReadableStream, the frames  *)
(* enqueued on it and the number of enqueue calls made on its controller.  *)
(* controller.enqueue and controller.close throw a TypeError on a stream   *)
(* that is not readable.                                                   *)
(***************************************************************************)
SessionIds == {"k1", "k2"}

NewStream(sessionId) == [id |-> sessionId, state |-> "readable", frames |-> <<>>, writes |-> 0]

\* messageStr without the blank line that ends an event
messageStrUnterminated(message) == "data: " \o JSONstringify(message) \o "\n"

\* the event frame of a message (transport.ts:166)
messageStr(message) == "data: " \o JSONstringify(message) \o "\n\n"

\* indices of the registry entries with key k (at most one)
Entry(reg, k) == {i \in DOMAIN reg : reg[i].id = k}

\* Map.set leaving the entry of an existing key as it is
MapSetKeepingFirst(reg, k, c) ==
    IF Entry(reg, k) = {}
    THEN Append(reg, [id |-> k, controller |-> c])
    ELSE reg

\* Map.set (transport.ts:141): an existing key keeps its place
MapSet(reg, k, c) ==
    IF Entry(reg, k) = {}
    THEN Append(reg, [id |-> k, controller |-> c])
    ELSE [i \in DOMAIN reg |-> IF reg[i].id = k THEN [id |-> k, controller |-> c] ELSE reg[i]]

RECURSIVE Filter(_, _)
\* the subsequence of reg keeping the entries whose key is in keep
Filter(reg, keep) ==
    IF reg = <<>> THEN <<>>
    ELSE (IF Head(reg).id \in keep THEN <<Head(reg)>> ELSE <<>>) \o Filter(Tail(reg), keep)

\* Map.delete (transport.ts:144, :175)
MapDelete(reg, k) == Filter(reg, {e.id : e \in {reg[i] : i \in DOMAIN reg}} \ {k})

\* the streams the registry holds
Controllers(reg) == {reg[i].controller : i \in DOMAIN reg}

RECURSIVE broadcastLoopAborting(_, _, _)
\* the loop of broadcastMessage without its try/catch: the first failing
\* write ends the loop
broadcastLoopAborting(message, todo, st) ==
    IF todo = <<>> THEN [streams |-> st, threw |-> FALSE]
    ELSE LET c == Head(todo).controller
         IN  IF st[c].state # "readable"
             THEN [streams |-> [st EXCEPT ![c].writes = @ + 1], threw |-> TRUE]
             ELSE broadcastLoopAborting(message, Tail(todo),
                     [st EXCEPT ![c].frames = Append(@, "data: " \o JSONstringify(message) \o "\n\n"),
                                ![c].writes = @ + 1])

\* broadcastMessage letting a failing write escape
broadcastMessageAborting(message, reg, st) ==
    LET r == broadcastLoopAborting(message, reg, st)
    IN  [sessions |-> reg, streams |-> r.streams, threw |-> r.threw]

\* broadcastMessage with an empty catch: a session whose write failed stays
broadcastMessageKeeping(message, reg, st) ==
    [sessions |-> reg,
     streams |-> [c \in DOMAIN st |->
                    IF c \in Controllers(reg)
                    THEN IF st[c].state = "readable"
                         THEN [st[c] EXCEPT !.frames = Append(@, "data: " \o JSONstringify(message) \o "\n\n"),
                                            !.writes = @ + 1]
                         ELSE [st[c] EXCEPT !.writes = @ + 1]
                    ELSE st[c]],
     threw |-> FALSE]

\* broadcastMessage putting its event in front of the events of a stream
broadcastMessagePrepending(message, reg, st) ==
    LET failed == {reg[i].id : i \in {j \in DOMAIN reg : st[reg[j].controller].state # "readable"}}
        keys == {reg[i].id : i \in DOMAIN reg}
    IN  [sessions |-> Filter(reg, keys \ failed),
         streams |-> [c \in DOMAIN st |->
                        IF c \in Controllers(reg)
                        THEN IF st[c].state = "readable"
                             THEN [st[c] EXCEPT !.frames = <<"data: " \o JSONstringify(message) \o "\n\n">> \o @,
                                                !.writes = @ + 1]
                             ELSE [st[c] EXCEPT !.writes = @ + 1]
                        ELSE st[c]],
         threw |-> FALSE]

(***************************************************************************)
(* broadcastMessage (transport.ts:165-178) on registry reg and streams st: *)
(* the registry and the streams after the loop.  The loop has no await, so *)
(* it runs to completion; deleting the entry being visited does not        *)
(* disturb the iteration of a Map.                                         *)
(***************************************************************************)
broadcastMessage(message, reg, st) ==
    LET failed == {reg[i].id : i \in {j \in DOMAIN reg : st[reg[j].controller].state # "readable"}}
        keys == {reg[i].id : i \in DOMAIN reg}
    IN  [sessions |-> Filter(reg, keys \ failed),
         streams |-> [c \in DOMAIN st |->
                        IF c \in Controllers(reg)
                        THEN IF st[c].state = "readable"
                             THEN [st[c] EXCEPT !.frames = Append(@, messageStr(message)),
                                                !.writes = @ + 1]
                             ELSE [st[c] EXCEPT !.writes = @ + 1]
                        ELSE st[c]],
         threw |-> FALSE]

\* sendResponse dropping every session of the registry
sendResponseClearing(response, reg, st) == [sessions |-> <<>>, streams |-> st, threw |-> FALSE]

\* sendResponse (transport.ts:160-163): an empty body
sendResponse(response, reg, st) == [sessions |-> reg, streams |-> st, threw |-> FALSE]

\* send (transport.ts:70-79)
send(message, reg, st) ==
    IF HasNonNullId(message)
    THEN sendResponse(message, reg, st)
    ELSE broadcastMessage(message, reg, st)

(***************************************************************************)
(* close (transport.ts:46-50): the loop over the registry in insertion     *)
(* order; controller.close() throws on a stream that is not readable,      *)
(* which ends the loop and the call.                                       *)
(***************************************************************************)
RECURSIVE closeLoop(_, _)
closeLoop(reg, st) ==
    IF reg = <<>> THEN [streams |-> st, threw |-> FALSE]
    ELSE LET c == Head(reg).controller
         IN  IF st[c].state # "readable"
             THEN [streams |-> st, threw |-> TRUE]
             ELSE closeLoop(Tail(reg), [st EXCEPT ![c].state = "closed"])

(***************************************************************************)
(* Inputs of the model.                                                    *)
(***************************************************************************)
Paths == {optionsPath, "/other"}
Origins == {Absent, "http://localhost:3000", "http://evil.example.com"}
Versions == {Absent, BaselineVersion, "2024-11-05"}
Methods == {"POST", "GET", "PUT"}

\* bodies of submit calls
Bodies ==
    {"not json", "null", "42", "[]",
     JSONstringify(JSValue("object", Absent, Absent, Absent)),
     JSONstringify(Notification),
     JSONstringify(NullIdNotification)}
        \cup {JSONstringify(Request(i)) : i \in RequestIds}

HttpRequest(p, o, v, m, b) == [path |-> p, origin |-> o, version |-> v, method |-> m, body |-> b]

\* every combination of path, origin, version and method; a submit call
\* carries a Request or a body that does not parse
Requests ==
    {HttpRequest(p, o, v, m, "") : p \in Paths, o \in Origins, v \in Versions, m \in Methods \ {"POST"}}
        \cup {HttpRequest(p, o, v, "POST", b) : p \in Paths, o \in Origins, v \in Versions,
                                                 b \in {JSONstringify(Request(i)) : i \in RequestIds}}
        \cup {HttpRequest(optionsPath, Absent, Absent, "POST", b) : b \in Bodies}

\* one request per outcome of handleRequest
CoreRequests ==
    {HttpRequest(optionsPath, Absent, Absent, "GET", ""),
     HttpRequest(optionsPath, "http://evil.example.com", Absent, "GET", ""),
     HttpRequest(optionsPath, Absent, "2024-11-05", "GET", ""),
     HttpRequest("/other", Absent, Absent, "GET", ""),
     HttpRequest(optionsPath, Absent, Absent, "PUT", ""),
     HttpRequest(optionsPath, Absent, Absent, "POST", JSONstringify(Notification))}
        \cup {HttpRequest(optionsPath, Absent, Absent, "POST", JSONstringify(Request(i))) : i \in RequestIds}

\* messages the handler layer passes to send()
Responses == {ResultResponse(i) : i \in RequestIds} \cup {ErrorResponse(i) : i \in RequestIds}
ServerRequests == {Request(i) : i \in ServerRequestIds}
Notifications == {Notification, NullIdNotification}

\* the JSON texts of the Responses with id i
ResponseTexts(i) == {JSONstringify(ResultResponse(i)), JSONstringify(ErrorResponse(i))}

\* what the listener answered to a request
Exchange(request, status, reply, bodyRead, invoked, inserted, sessionId) ==
    [request |-> request, status |-> status, reply |-> reply, bodyRead |-> bodyRead,
     invoked |-> invoked, inserted |-> inserted, sessionId |-> sessionId]

NoRequest == HttpRequest(Absent, Absent, Absent, Absent, "")
NoExchange == Exchange(NoRequest, Absent, "", FALSE, 0, {}, Absent)

\* the body text of the listener's own answers (transport.ts:85, :91, :97, :106)
StatusText(status) ==
    CASE status = "404" -> "Not Found"
      [] status = "403" -> "Forbidden"
      [] status = "400" -> "Unsupported Protocol Version"
      [] status = "405" -> "Method Not Allowed"

(***************************************************************************)
(* The tools/call handler of the server (index.ts:88-122).  A text is a    *)
(* sequence of characters; the arguments object is a record telling which  *)
(* of its properties are there.                                            *)
(***************************************************************************)
\* length of the texts passed to the tools
MaxText == 2

RECURSIVE TextsOfLen(_)
TextsOfLen(n) ==
    IF n = 0 THEN {<<>>} ELSE {Append(t, ch) : t \in TextsOfLen(n - 1), ch \in {"a", "b"}}

Texts == UNION {TextsOfLen(n) : n \in 0..MaxText}

\* String(undefined), also what a template literal makes of undefined
StringUndefined == <<"u", "n", "d", "e", "f", "i", "n", "e", "d">>

Operations == {"add", "subtract", "multiply", "divide"}

\* request.params.arguments: missing, or an object with a text property,
\* or an object with the properties of a calculation, or an empty object
NoArguments == [given |-> FALSE, hasText |-> FALSE, text |-> <<>>, operation |-> Absent, a |-> 0, b |-> 0]
TextArguments(text) == [given |-> TRUE, hasText |-> TRUE, text |-> text, operation |-> Absent, a |-> 0, b |-> 0]
EmptyArguments == [given |-> TRUE, hasText |-> FALSE, text |-> <<>>, operation |-> Absent, a |-> 0, b |-> 0]
CalculatorArguments(operation, a, b) ==
    [given |-> TRUE, hasText |-> FALSE, text |-> <<>>, operation |-> operation, a |-> a, b |-> b]

ToolArguments ==
    {NoArguments, EmptyArguments}
        \cup {TextArguments(text) : text \in Texts}
        \cup {CalculatorArguments(operation, a, b) : operation \in Operations, a \in {0, 15, 16}, b \in {0, 25}}

ToolNames == {"echo", "reverse", "calculator", "nothing"}

\* `args.text` converted to a string
argsText(args) == IF args.hasText THEN args.text ELSE StringUndefined

RECURSIVE reverse(_)
\* split(""), reverse(), join("")
reverse(text) == IF text = <<>> THEN <<>> ELSE Append(reverse(Tail(text)), Head(text))

\* a result with one content item of type text
TextContent(text) == [isError |-> FALSE, code |-> Absent, text |-> text]
\* a thrown McpError
McpError(code, message) == [isError |-> TRUE, code |-> code, text |-> message]

\* the handler of CallToolRequestSchema (index.ts:88-122)
callTool(name, args) ==
    IF ~args.given
    THEN McpError("InvalidParams", <<"Missing arguments">>)
    ELSE CASE name = "echo" -> TextContent(<<"Echo: ">> \o argsText(args))
           [] name = "reverse" -> TextContent(<<"Reversed: ">> \o reverse(argsText(args)))
           [] OTHER -> McpError("MethodNotFound", <<"Unknown tool: ", name>>)

ToolCall(name, args, result) == [name |-> name, args |-> args, result |-> result]
NoToolCall == ToolCall(Absent, NoArguments, TextContent(<<>>))

(***************************************************************************)
(* State.                                                                  *)
(*   server          this.server is defined (the listener accepts calls)   *)
(*   sessions        this.sessions, a Map in insertion order               *)
(*   messageHandler  this.messageHandler is defined                        *)
(*   closeHandler    this.closeHandler is defined                          *)
(*   streams         the ReadableStreams the subscribe calls created       *)
(*   inflight        submit calls suspended in `await request.text()`      *)
(*   routed          ids of the Requests handed to the message handler     *)
(*   answered        ids for which send() was called with a Response       *)
(*   closed          close() has run to its end / has thrown / not run     *)
(*   inline          ids of the Responses a submit call's own reply carried*)
(*   last            the last HTTP exchange the listener completed         *)
(*   toolCall        the last tools/call request and what its handler gave *)
(***************************************************************************)
VARIABLES server, sessions, messageHandler, closeHandler, streams, inflight,
          routed, answered, closed, inline, last, toolCall

vars == <<server, sessions, messageHandler, closeHandler, streams, inflight,
          routed, answered, closed, inline, last, toolCall>>

Init ==
    /\ server = FALSE
    /\ sessions = <<>>
    /\ messageHandler = FALSE
    /\ closeHandler = FALSE
    /\ streams = <<>>
    /\ inflight = {}
    /\ routed = {}
    /\ answered = {}
    /\ closed = "no"
    /\ inline = {}
    /\ last = NoExchange
    /\ toolCall = NoToolCall

\* start (transport.ts:32-38)
start ==
    /\ ~server
    /\ server' = TRUE
    /\ closed' = "no"
    /\ UNCHANGED <<sessions, messageHandler, closeHandler, streams, inflight, routed, answered, last, inline, toolCall>>

\* close (transport.ts:40-56)
close ==
    LET r == closeLoop(sessions, streams)
    IN  /\ server' = FALSE
        /\ streams' = r.streams
        /\ sessions' = IF r.threw THEN sessions ELSE <<>>
        /\ closed' = IF r.threw THEN "threw"
                     ELSE IF closeHandler THEN "done, handler invoked" ELSE "done"
        /\ UNCHANGED <<messageHandler, closeHandler, inflight, routed, answered, last, inline, toolCall>>

\* onMessage (transport.ts:58-60)
onMessage ==
    /\ messageHandler' = TRUE
    /\ UNCHANGED <<server, sessions, closeHandler, streams, inflight, routed, answered, closed, last, inline, toolCall>>

\* onClose (transport.ts:62-64)
onClose ==
    /\ closeHandler' = TRUE
    /\ UNCHANGED <<server, sessions, messageHandler, streams, inflight, routed, answered, closed, last, inline, toolCall>>

\* onError (transport.ts:66-68)
onError ==
    /\ UNCHANGED vars

\* handleRequest answering by itself: 404, 403, 400 or 405 (transport.ts:81-107)
Reject(request) ==
    /\ server
    /\ handleRequest(request) \in {"404", "403", "400", "405"}
    /\ last' = Exchange(request, handleRequest(request), StatusText(handleRequest(request)),
                        FALSE, 0, {}, Absent)
    /\ UNCHANGED <<server, sessions, messageHandler, closeHandler, streams, inflight, routed,
                   answered, closed, inline, toolCall>>

\* handleGetRequest (transport.ts:132-158); sessionId is what generateSessionId
\* (transport.ts:180-183) returns, a random string
Subscribe(request, sessionId) ==
    /\ server
    /\ handleRequest(request) = "handleGetRequest"
    /\ Len(streams) < MaxStreams
    /\ streams' = Append(streams, NewStream(sessionId))
    /\ sessions' = MapSet(sessions, sessionId, Len(streams) + 1)
    /\ last' = Exchange(request, "200", "", FALSE, 0, {Len(streams) + 1}, sessionId)
    /\ UNCHANGED <<server, messageHandler, closeHandler, inflight, routed, answered, closed, inline, toolCall>>

\* handlePostRequest up to `await request.text()` (transport.ts:109-111)
SubmitBegin(request) ==
    /\ server
    /\ handleRequest(request) = "handlePostRequest"
    /\ Cardinality(inflight) < MaxInflight
    /\ request \notin inflight
    /\ inflight' = inflight \cup {request}
    /\ UNCHANGED <<server, sessions, messageHandler, closeHandler, streams, routed, answered,
                   closed, last, inline, toolCall>>

\* handlePostRequest from the body on (transport.ts:112-129); throws: the
\* registered handler throws synchronously
SubmitEnd(request, throws) ==
    /\ request \in inflight
    /\ messageHandler \/ ~throws
    /\ LET r == handlePostRequest(request.body, messageHandler, throws)
       IN  /\ last' = Exchange(request, r.status, r.reply, TRUE, r.invoked, {}, Absent)
           /\ inline' = inline \cup {i \in RequestIds : r.reply \in ResponseTexts(i)}
           /\ routed' = IF r.invoked = 1 /\ ~throws /\ r.message.id \in RequestIds
                           /\ r.message.method # Absent
                        THEN routed \cup {r.message.id}
                        ELSE routed
    /\ inflight' = inflight \ {request}
    /\ UNCHANGED <<server, sessions, messageHandler, closeHandler, streams, answered, closed, toolCall>>

RECURSIVE FramesHeld(_)
\* the number of events the streams of st hold together
FramesHeld(st) ==
    IF st = <<>> THEN 0 ELSE Len(Head(st).frames) + FramesHeld(Tail(st))

\* the cancel callback of a stream (transport.ts:143-145): the client closed
\* the connection
cancel(c) ==
    /\ c \in DOMAIN streams
    /\ streams[c].state = "readable"
    /\ streams' = [streams EXCEPT ![c].state = "closed"]
    /\ sessions' = MapDelete(sessions, streams[c].id)
    /\ UNCHANGED <<server, messageHandler, closeHandler, inflight, routed, answered, closed, last, inline, toolCall>>

\* the connection under a stream breaks and the runtime errors the stream
\* without running its cancel callback: the case the catch of
\* broadcastMessage handles (transport.ts:173-176)
streamError(c) ==
    /\ c \in DOMAIN streams
    /\ streams[c].state = "readable"
    /\ streams' = [streams EXCEPT ![c].state = "errored"]
    /\ UNCHANGED <<server, sessions, messageHandler, closeHandler, inflight, routed, answered,
                   closed, last, inline, toolCall>>

\* the handler layer calls send (transport.ts:70-79) with a Notification or
\* with a Request of its own
Send(message) ==
    /\ FramesHeld(streams) + Cardinality(Controllers(sessions)) <= MaxFrames
    /\ LET r == send(message, sessions, streams)
       IN  /\ sessions' = r.sessions
           /\ streams' = r.streams
    /\ UNCHANGED <<server, messageHandler, closeHandler, inflight, routed, answered, closed, last, inline, toolCall>>

\* the handler layer answers a Request it was handed: one call of send with a
\* Response carrying the Request's id
Reply(response) ==
    /\ response.id \in routed \ answered
    /\ FramesHeld(streams) + Cardinality(Controllers(sessions)) <= MaxFrames
    /\ LET r == send(response, sessions, streams)
       IN  /\ sessions' = r.sessions
           /\ streams' = r.streams
    /\ answered' = answered \cup {response.id}
    /\ UNCHANGED <<server, messageHandler, closeHandler, inflight, routed, closed, last, inline, toolCall>>

\* a tools/call request reaches the handler of the server
CallTool(name, args) ==
    /\ toolCall' = ToolCall(name, args, callTool(name, args))
    /\ UNCHANGED <<server, sessions, messageHandler, closeHandler, streams, inflight, routed,
                   answered, closed, inline, last>>

Next ==
    \/ start
    \/ close
    \/ onMessage
    \/ onClose
    \/ onError
    \/ \E request \in CoreRequests : Reject(request)
    \/ \E request \in CoreRequests, sessionId \in SessionIds : Subscribe(request, sessionId)
    \/ \E request \in CoreRequests : SubmitBegin(request)
    \/ \E request \in CoreRequests, throws \in BOOLEAN : SubmitEnd(request, throws)
    \/ \E c \in 1..MaxStreams : cancel(c)
    \/ \E c \in 1..MaxStreams : streamError(c)
    \/ \E message \in Notifications \cup ServerRequests : Send(message)
    \/ \E response \in Responses : Reply(response)

Spec == Init /\ [][Next]_vars

(***************************************************************************)
(* The listener under every combination of request attributes: the         *)
(* message handler may be registered and the listener started, and every   *)
(* request of Requests may arrive.                                         *)
(***************************************************************************)
NextListener ==
    \/ start
    \/ onMessage
    \/ \E request \in Requests : Reject(request)
    \/ \E request \in Requests, sessionId \in SessionIds : Subscribe(request, sessionId)
    \/ \E request \in Requests : SubmitBegin(request)
    \/ \E request \in Requests, throws \in BOOLEAN : SubmitEnd(request, throws)

SpecListener == Init /\ [][NextListener]_vars

(***************************************************************************)
(* The broadcaster: the listener is started and closed, sessions are       *)
(* opened, cancelled and broken, and the handler layer sends Notifications *)
(* and Requests of its own.                                                *)
(***************************************************************************)
SubscribeRequests == {HttpRequest(optionsPath, Absent, Absent, "GET", "")}

NextBroadcast ==
    \/ start
    \/ close
    \/ \E request \in SubscribeRequests, sessionId \in SessionIds : Subscribe(request, sessionId)
    \/ \E c \in 1..MaxStreams : cancel(c)
    \/ \E c \in 1..MaxStreams : streamError(c)
    \/ \E message \in Notifications \cup ServerRequests : Send(message)

SpecBroadcast == Init /\ [][NextBroadcast]_vars

(***************************************************************************)
(* Requests and their Responses: sessions are opened and cancelled,        *)
(* Requests are submitted and handed to the handler layer, which answers   *)
(* each with one Response.                                                 *)
(***************************************************************************)
SubmitRequests ==
    {HttpRequest(optionsPath, Absent, Absent, "POST", JSONstringify(Request(i))) : i \in RequestIds}

NextReply ==
    \/ start
    \/ onMessage
    \/ \E request \in SubscribeRequests, sessionId \in SessionIds : Subscribe(request, sessionId)
    \/ \E request \in SubmitRequests : SubmitBegin(request)
    \/ \E request \in SubmitRequests, throws \in BOOLEAN : SubmitEnd(request, throws)
    \/ \E c \in 1..MaxStreams : cancel(c)
    \/ \E response \in Responses : Reply(response)

SpecReply == Init /\ [][NextReply]_vars

(***************************************************************************)
(* The connection gatekeeper alone: calls on the endpoint path with every  *)
(* origin and version header of GateOrigins and GateVersions.              *)
(***************************************************************************)
GateOrigins ==
    {Absent, "", "not a url", "http://localhost:3000", "http://127.0.0.1",
     "http://[::1]", "http://evil.example.com"}

GateVersions == {Absent, BaselineVersion, "", "2024-11-05"}

GateRequests ==
    {HttpRequest(optionsPath, o, v, m, "") : o \in GateOrigins, v \in GateVersions, m \in {"GET", "PUT"}}
        \cup {HttpRequest(optionsPath, o, v, "POST", JSONstringify(Notification)) :
                 o \in GateOrigins, v \in GateVersions}

NextGate ==
    \/ start
    \/ onMessage
    \/ \E request \in GateRequests : Reject(request)
    \/ \E request \in GateRequests, sessionId \in SessionIds : Subscribe(request, sessionId)
    \/ \E request \in GateRequests : SubmitBegin(request)
    \/ \E request \in GateRequests, throws \in BOOLEAN : SubmitEnd(request, throws)

SpecGate == Init /\ [][NextGate]_vars

(***************************************************************************)
(* The life of the sessions: they are opened, cancelled by their clients,  *)
(* broken by the network and closed by shutdown, with or without a close   *)
(* handler registered.                                                     *)
(***************************************************************************)
NextShutdown ==
    \/ start
    \/ close
    \/ onClose
    \/ \E request \in SubscribeRequests, sessionId \in SessionIds : Subscribe(request, sessionId)
    \/ \E c \in 1..MaxStreams : cancel(c)
    \/ \E c \in 1..MaxStreams : streamError(c)

SpecShutdown == Init /\ [][NextShutdown]_vars

(***************************************************************************)
(* The tools/call handler on every tool name and arguments object.         *)
(***************************************************************************)
NextTools == \E name \in ToolNames, args \in ToolArguments : CallTool(name, args)

SpecTools == Init /\ [][NextTools]_vars

(***************************************************************************)
(* Every operation of the transport on one request per outcome of the      *)
(* listener, one Notification and one Response per Request.                *)
(***************************************************************************)
RegistryRequests ==
    {HttpRequest(optionsPath, Absent, Absent, "GET", ""),
     HttpRequest(optionsPath, "http://evil.example.com", Absent, "GET", ""),
     HttpRequest(optionsPath, Absent, "2024-11-05", "GET", ""),
     HttpRequest("/other", Absent, Absent, "GET", ""),
     HttpRequest(optionsPath, Absent, Absent, "PUT", "")}
        \cup {HttpRequest(optionsPath, Absent, Absent, "POST", JSONstringify(Request(i))) : i \in RequestIds}

NextRegistry ==
    \/ start
    \/ close
    \/ onMessage
    \/ onClose
    \/ onError
    \/ \E request \in RegistryRequests : Reject(request)
    \/ \E request \in RegistryRequests, sessionId \in SessionIds : Subscribe(request, sessionId)
    \/ \E request \in RegistryRequests : SubmitBegin(request)
    \/ \E request \in RegistryRequests, throws \in BOOLEAN : SubmitEnd(request, throws)
    \/ \E c \in 1..MaxStreams : cancel(c)
    \/ \E c \in 1..MaxStreams : streamError(c)
    \/ \E message \in {Notification} \cup ServerRequests : Send(message)
    \/ \E response \in {ResultResponse(i) : i \in RequestIds} : Reply(response)

SpecRegistry == Init /\ [][NextRegistry]_vars

(***************************************************************************)
(* Properties.                                                             *)
(***************************************************************************)
\* an event of the streaming format: 'data: <JSON>' and a blank line
EventFrame(message) == "data: " \o JSONstringify(message) \o "\n\n"

\* the streams of the registry on which a write fails
Failing == {c \in Controllers(sessions) : streams[c].state # "readable"}

\* a write to stream c has failed: enqueue was called more often than frames
\* were accepted
WriteFailed(c) == streams[c].writes > Len(streams[c].frames)

\* the frames of stream c that carry a Response with id i
ResponseFrames(c, i) ==
    {k \in DOMAIN streams[c].frames :
        streams[c].frames[k] \in {EventFrame(ResultResponse(i)), EventFrame(ErrorResponse(i))}}

RECURSIVE SumOver(_, _)
SumOver(S, f) ==
    IF S = {} THEN 0
    ELSE LET x == CHOOSE y \in S : TRUE IN f[x] + SumOver(S \ {x}, f)

\* how many Responses with id i went out to clients: as events on the
\* session streams, or on a submit call's own reply
Delivered(i) ==
    SumOver(DOMAIN streams, [c \in DOMAIN streams |-> Cardinality(ResponseFrames(c, i))])
        + (IF i \in inline THEN 1 ELSE 0)

\* C1: every Request that was submitted, handed to the handler and answered
\* by one call of send() with a Response of its id has exactly one Response
\* with that id delivered outward: on a session stream or on the submit
\* call's reply.
C1_ExactlyOneResponse == \A i \in answered : Delivered(i) = 1

\* C2: whenever send() is called with a Response while the registry holds
\* open sessions, the Response is written as an event to every session that
\* is open at the time of the call.
C2_ResponseFanOut ==
    [][\A r \in Responses :
          (Reply(r) /\ sessions # <<>>)
              => \A c \in Controllers(sessions) :
                    streams[c].state = "readable"
                        => streams'[c].frames = Append(streams[c].frames, EventFrame(r))]_vars

\* C3 as stated: whenever send() is called with a Notification, one event
\* frame carrying it is enqueued on every session of the registry and on no
\* other stream; with an empty registry nothing is written.
C3_FanOutToEveryRegistered ==
    [][\A m \in Notifications :
          Send(m)
              => /\ \A c \in DOMAIN streams :
                       streams'[c].frames =
                           IF c \in Controllers(sessions)
                           THEN Append(streams[c].frames, EventFrame(m))
                           ELSE streams[c].frames
                 /\ sessions = <<>> => streams' = streams /\ sessions' = sessions]_vars

\* C3, amended: whenever send() is called with a Notification (no id, or id
\* null), enqueue is called once on every session of the registry, exactly
\* one complete event frame carrying the message is enqueued on every
\* registered session whose stream accepts the write, nothing is enqueued on
\* any other stream, and the call does not throw; with an empty registry
\* nothing is written anywhere.
C3_NotificationFanOut ==
    [][\A m \in Notifications :
          Send(m)
              => /\ \A c \in DOMAIN streams :
                       /\ streams'[c].frames =
                              IF c \in Controllers(sessions) \ Failing
                              THEN Append(streams[c].frames, EventFrame(m))
                              ELSE streams[c].frames
                       /\ streams'[c].writes =
                              IF c \in Controllers(sessions)
                              THEN streams[c].writes + 1
                              ELSE streams[c].writes
                 /\ ~send(m, sessions, streams).threw
                 /\ sessions = <<>> => streams' = streams /\ sessions' = sessions]_vars

\* C3 happens: a registered stream holds the frame of a Notification with
\* id null, and a stream that had left the registry holds nothing.
C3_Witness ==
    \E c \in Controllers(sessions), d \in DOMAIN streams \ Controllers(sessions) :
        /\ streams[c].frames = <<EventFrame(NullIdNotification)>>
        /\ streams[d].state = "closed"
        /\ streams[d].frames = <<>>
        /\ streams[d].writes = 0

\* C4: if writes fail during a broadcast, exactly the sessions whose write
\* failed are removed from the registry, every other session of the registry
\* receives the message and stays registered under its key, and send() does
\* not throw.
C4_FailureIsolation ==
    [][\A m \in Notifications :
          (Send(m) /\ Failing # {})
              => /\ Controllers(sessions') = Controllers(sessions) \ Failing
                 /\ \A i \in DOMAIN sessions :
                       sessions[i].controller \notin Failing
                           => \E j \in DOMAIN sessions' : sessions'[j] = sessions[i]
                 /\ \A c \in Controllers(sessions) \ Failing :
                       /\ streams'[c].frames = Append(streams[c].frames, EventFrame(m))
                       /\ streams'[c].state = "readable"
                 /\ ~send(m, sessions, streams).threw]_vars

\* C4 happens: the older stream 1 is registered and holds exactly one frame,
\* the younger stream 2 had a write fail and is gone from the registry: both
\* were written to by the same broadcast.
C4_Witness ==
    /\ Len(streams) >= 2
    /\ 1 \in Controllers(sessions)
    /\ 2 \notin Controllers(sessions)
    /\ streams[1].state = "readable"
    /\ Len(streams[1].frames) = 1
    /\ streams[2].state = "errored"
    /\ streams[2].frames = <<>>
    /\ streams[2].writes = 1

\* C5: once a write to a session's stream has failed, the session is out of
\* the registry and no later broadcast calls enqueue on that stream; every
\* later broadcast still delivers to all sessions that remain open and keeps
\* them registered.
C5_NoWriteAfterEviction ==
    [][/\ \A c \in DOMAIN streams :
             WriteFailed(c)
                 => /\ streams'[c].writes = streams[c].writes
                    /\ streams'[c].frames = streams[c].frames
                    /\ c \notin Controllers(sessions')
       /\ \A m \in Notifications :
             (Send(m) /\ \E c \in DOMAIN streams : WriteFailed(c))
                 => \A c \in Controllers(sessions) \ Failing :
                       /\ streams'[c].frames = Append(streams[c].frames, EventFrame(m))
                       /\ c \in Controllers(sessions')]_vars

\* C5 happens: a write to stream 1 failed while it was registered, and
\* stream 2, which took over its key afterwards, has since received a frame.
C5_Witness ==
    /\ Len(streams) >= 2
    /\ WriteFailed(1)
    /\ streams[1].writes = 1
    /\ streams[2].id = streams[1].id
    /\ 2 \in Controllers(sessions)
    /\ Len(streams[2].frames) >= 1

\* the origin check and the version check of the gatekeeper on a request
OriginRejects(request) == Truthy(request.origin) /\ ~isValidOrigin(request.origin)
VersionRejects(request) == ~isSupportedProtocolVersion(protocolVersion(request))

\* the listener has answered a request
Answered == last.status # Absent

\* the message the body of the last exchange decodes to
Decoded == JSONparse(last.request.body)

\* a decoded value is one Protocol Message: a Request or a Notification (an
\* object with a method) or a Response (an object with an id and a payload)
IsProtocolMessage(v) ==
    /\ v.type = "object"
    /\ \/ v.method # Absent
       \/ v.payload # Absent /\ HasNonNullId(v)

\* C6: every submit call whose body passed the gatekeeper and parses as a
\* Protocol Message has handed the decoded message to the message handler
\* exactly once by the time it is answered, in every state the listener can
\* be serving in: no such call is acknowledged without the handler having run.
C6_HandedBeforeAcknowledged ==
    (Answered /\ last.bodyRead /\ IsProtocolMessage(Decoded))
        => last.invoked = 1

\* C7: a request on the configured path that the origin check or the version
\* check rejects is answered 403 or 400, its body is never read, the message
\* handler is not invoked for it and it inserts no session; no submit call
\* waits for its body unless both checks accepted it.
C7_GatekeeperFirst ==
    /\ \A request \in inflight : ~OriginRejects(request) /\ ~VersionRejects(request)
    /\ (Answered /\ last.request.path = optionsPath
           /\ (OriginRejects(last.request) \/ VersionRejects(last.request)))
          => /\ last.status = IF OriginRejects(last.request) THEN "403" ELSE "400"
             /\ ~last.bodyRead
             /\ last.invoked = 0
             /\ last.inserted = {}
    /\ (Answered /\ (last.bodyRead \/ last.invoked > 0 \/ last.inserted # {}))
          => ~OriginRejects(last.request) /\ ~VersionRejects(last.request)

\* C7 happens: with a message handler registered, a submit call from a
\* foreign origin was answered 403.
C7_Witness ==
    /\ messageHandler
    /\ last.status = "403"
    /\ last.request.method = "POST"
    /\ last.request.origin = "http://evil.example.com"
    /\ last.request.body = JSONstringify(Request("1"))

\* C8: whenever the body of a submit call does not parse as one Protocol
\* Message the outcome is 400 and no handler is invoked; no submit call that
\* ends in 400 has invoked the message handler.
C8_MalformedNeverHandled ==
    (Answered /\ last.bodyRead)
        => /\ ~IsProtocolMessage(Decoded) => last.status = "400" /\ last.invoked = 0
           /\ last.status = "400" => last.invoked = 0

\* C9: every submit call whose body parses as a Request or a Notification is
\* answered 202 with an empty body, whatever the handler does, a handler
\* that throws when invoked included.
C9_AcknowledgedWhateverHandler ==
    (Answered /\ last.bodyRead /\ Decoded.type = "object" /\ Decoded.method # Absent)
        => last.status = "202" /\ last.reply = ""

\* C10 as stated: a request to another path is answered 404 and a request on
\* the configured path with a method other than POST and GET is answered
\* 405, whatever its origin and version headers are.
C10_PathAndMethodWhateverHeaders ==
    Answered
        => /\ last.request.path # optionsPath => last.status = "404"
           /\ (last.request.path = optionsPath /\ last.request.method \notin {"POST", "GET"})
                 => last.status = "405"

\* C10, amended: a request to another path is answered 404 whatever its
\* headers are; a request on the configured path with a method other than
\* POST and GET is answered 405 when it passes the origin check and the
\* version check, 403 when the origin check rejects it, and 400 when the
\* origin check accepts and the version check rejects it.
C10_PathAndMethod ==
    Answered
        => /\ last.request.path # optionsPath => last.status = "404"
           /\ (last.request.path = optionsPath /\ last.request.method \notin {"POST", "GET"})
                 => last.status =
                        IF OriginRejects(last.request) THEN "403"
                        ELSE IF VersionRejects(last.request) THEN "400"
                        ELSE "405"

\* C10 happens: a PUT on the configured path from a loopback origin with the
\* baseline version was answered 405.
C10_Witness ==
    /\ last.status = "405"
    /\ last.request.method = "PUT"
    /\ last.request.origin = "http://localhost:3000"
    /\ last.request.version = BaselineVersion

\* the host of an origin is a loopback address
LoopbackHosts == {"localhost", "127.0.0.1", "[::1]"}

\* the reference predicate of the origin check: no origin header, or a valid
\* URL whose host is a loopback address
OriginAllowed(origin) ==
    \/ origin = Absent
    \/ /\ URLhostname(origin) # InvalidURL
       /\ URLhostname(origin) \in LoopbackHosts

\* C11: a call on the endpoint path passes the origin check iff its origin
\* header is absent or parses as a valid URL whose host is a loopback
\* address; every other present origin is answered 403.
C11_OriginCheck ==
    (Answered /\ last.request.path = optionsPath)
        => (last.status = "403" <=> ~OriginAllowed(last.request.origin))

\* C12: on a call that passed the origin check, an absent version header and
\* the baseline value are accepted, and every other present value, the empty
\* string included, is answered 400 'Unsupported Protocol Version'.
C12_VersionCheck ==
    (Answered /\ last.request.path = optionsPath /\ last.status # "403")
        => ((last.status = "400" /\ ~last.bodyRead)
                <=> last.request.version \notin {Absent, BaselineVersion})

\* C13: when a subscribe call returns its 200 reply, the registry holds under
\* the key of the X-Session-ID header the stream the call created, that
\* stream is open and has emitted no event; and a stream's events change
\* only by a broadcast that writes to it as a session of the registry.
C13_RegisteredBeforeAnswered ==
    [][/\ \A request \in SubscribeRequests, sessionId \in SessionIds :
             Subscribe(request, sessionId)
                 => /\ last'.status = "200"
                    /\ \E i \in DOMAIN sessions' :
                          /\ sessions'[i].id = last'.sessionId
                          /\ sessions'[i].controller = Len(streams')
                          /\ last'.inserted = {Len(streams')}
                    /\ streams'[Len(streams')].state = "readable"
                    /\ streams'[Len(streams')].frames = <<>>
                    /\ streams'[Len(streams')].writes = 0
       /\ \A c \in DOMAIN streams :
             (c \in DOMAIN streams' /\ streams'[c].frames # streams[c].frames)
                 => /\ c \in Controllers(sessions)
                    /\ \E m \in Notifications \cup ServerRequests : Send(m)]_vars

\* a subscribe call has just returned: its stream is registered under the
\* key of the reply and is silent, next to a session that holds an event
C13_Witness ==
    /\ last.status = "200"
    /\ Len(streams) = 2
    /\ last.inserted = {2}
    /\ \E i \in DOMAIN sessions : sessions[i].id = last.sessionId /\ sessions[i].controller = 2
    /\ streams[2].state = "readable"
    /\ streams[2].frames = <<>>
    /\ streams[1].frames # <<>>

\* C14: the subscribe calls yield pairwise different session identifiers, so
\* no two streams were ever registered under the same key.
C14_SessionIdsDistinct ==
    \A c, d \in DOMAIN streams : c # d => streams[c].id # streams[d].id

\* C15: once close() has run, it has not thrown, the registry is empty and
\* no stream a subscribe call created is still open; a close handler that
\* was registered has been invoked.
C15_ShutdownReleasesAll ==
    closed # "no"
        => /\ closed \in {"done", "done, handler invoked"}
           /\ sessions = <<>>
           /\ \A c \in DOMAIN streams : streams[c].state # "readable"

\* C16: when the cancel callback of a stream runs, the session its subscribe
\* call created leaves the registry, every other entry of the registry stays
\* as it is and no other stream is touched.
C16_CancelRemovesOwnSession ==
    [][\A c \in 1..MaxStreams :
          cancel(c)
              => /\ Controllers(sessions') = Controllers(sessions) \ {c}
                 /\ \A i \in DOMAIN sessions :
                       sessions[i].controller # c
                           => \E j \in DOMAIN sessions' : sessions'[j] = sessions[i]
                 /\ \A d \in DOMAIN streams \ {c} : streams'[d] = streams[d]]_vars

\* C17: the events of a stream are in the order in which send() was called:
\* a call of send() appends its event behind the events the stream already
\* holds, and no step removes, reorders or rewrites an event of a stream.
C17_FifoPerSession ==
    [][/\ \A m \in Notifications \cup ServerRequests :
             Send(m)
                 => \A c \in DOMAIN streams :
                       streams'[c].frames \in
                           {streams[c].frames, Append(streams[c].frames, EventFrame(m))}
       /\ \A c \in DOMAIN streams :
             c \in DOMAIN streams'
                 => /\ Len(streams'[c].frames) >= Len(streams[c].frames)
                    /\ SubSeq(streams'[c].frames, 1, Len(streams[c].frames)) = streams[c].frames]_vars

\* send() was called with one Notification and then with the other: a
\* session holds the two events in that order
C17_Witness ==
    \E c \in Controllers(sessions) :
        streams[c].frames = <<EventFrame(Notification), EventFrame(NullIdNotification)>>

\* the tools the README names
NamedTools == {"echo", "reverse", "calculator"}

\* arguments of the shape the tool asks for
WellFormed(name, args) ==
    /\ args.given
    /\ name \in {"echo", "reverse"} => args.hasText
    /\ name = "calculator" => args.operation \in Operations

\* C18: a tools/call for echo, reverse or calculator with well-formed
\* arguments returns a result with text content, and the MethodNotFound
\* error is given for names outside these three only.
C18_ThreeToolsServed ==
    toolCall # NoToolCall
        => /\ (toolCall.name \in NamedTools /\ WellFormed(toolCall.name, toolCall.args))
                 => ~toolCall.result.isError
           /\ toolCall.result.code = "MethodNotFound" => toolCall.name \notin NamedTools

\* C19: the registry changes only in a subscribe call, which inserts its
\* session, in a client disconnect, which removes the disconnected session,
\* in a broadcast with a failing write, which removes the sessions whose
\* write failed, and in shutdown, which clears it; submit calls, rejected
\* requests, send() of a Response and the registration of handlers leave it
\* as it is.
C19_RegistryFrame ==
    [][/\ sessions' # sessions
             => \/ \E request \in RegistryRequests, sessionId \in SessionIds :
                      /\ Subscribe(request, sessionId)
                      /\ Len(streams') \in Controllers(sessions')
                      /\ Len(streams') \notin Controllers(sessions)
                \/ \E c \in 1..MaxStreams :
                      /\ cancel(c)
                      /\ c \notin Controllers(sessions')
                      /\ Controllers(sessions') \subseteq Controllers(sessions)
                \/ \E m \in {Notification} :
                      /\ Send(m)
                      /\ Failing # {}
                      /\ Controllers(sessions') = Controllers(sessions) \ Failing
                \/ close /\ sessions' = <<>>
       /\ \/ onMessage
          \/ onClose
          \/ onError
          \/ \E request \in RegistryRequests : Reject(request)
          \/ \E request \in RegistryRequests : SubmitBegin(request)
          \/ \E request \in RegistryRequests, throws \in BOOLEAN : SubmitEnd(request, throws)
          \/ \E response \in Responses : Reply(response)
          \/ \E request \in ServerRequests : Send(request)
          => sessions' = sessions]_vars

\* a write failed and its session was evicted while another session stays
\* registered, after a Request was submitted, acknowledged and answered with
\* both handlers registered
C19_Witness ==
    /\ messageHandler
    /\ closeHandler
    /\ answered # {}
    /\ last.status = "202"
    /\ \E c \in DOMAIN streams : WriteFailed(c) /\ c \notin Controllers(sessions)
    /\ \E c \in Controllers(sessions) : streams[c].state = "readable"

\* stream c is open: it was created by a subscribe call and has since been
\* neither cancelled by its client nor closed by shutdown nor evicted after
\* a failed write
IsOpen(c) == streams[c].state # "closed" /\ ~WriteFailed(c)

\* C20: a stream is in the registry if and only if it is open.
C20_RegisteredIffOpen ==
    \A c \in DOMAIN streams : c \in Controllers(sessions) <=> IsOpen(c)

\* C21: in every state, send() called with a Request of the server, a
\* message with a method and a non-null id, enqueues one event carrying it
\* on every open session of the registry, as it does for a Notification.
C21_ServerRequestBroadcast ==
    \A m \in ServerRequests :
        \A c \in Controllers(sessions) :
            streams[c].state = "readable"
                => send(m, sessions, streams).streams[c].frames
                       = Append(streams[c].frames, EventFrame(m))

\* C22: once close() has run to its end, no step invokes the message handler
\* and no step inserts a session into the registry, whatever submit calls
\* were suspended on their body when close() ran.
C22_NoDeliveryAfterShutdown ==
    [][(closed = "done" \/ closed = "done, handler invoked")
          => ((\A request \in RegistryRequests, throws \in BOOLEAN :
                   SubmitEnd(request, throws) => last'.invoked = 0)
              /\ Controllers(sessions') \subseteq Controllers(sessions))]_vars

====
